---- MODULE Spec2Model ----
(***************************************************************************)
(* A model of the algo-trading repository:                                 *)
(*   - create_orders of src/strategies/london_breakout.py (breakout        *)
(*     orders placed at the 08:00 bar, expiry of stale pending orders,     *)
(*     fill test against every processed bar);                             *)
(*   - the order generation loop of src/strategies/macd_crossover.py;      *)
(*   - plot_performance of src/strategies/london_breakout.py;              *)
(*   - get_risk_pct and run of src/trading/london_breakout.py.             *)
(*                                                                         *)
(* Prices are floats in the source.  Here a price is an integer number of  *)
(* units of 10^-(Digits+1), one decimal finer than the five decimals the   *)
(* source rounds to, and NaN is a value of its own on which every          *)
(* comparison is false and which every arithmetic operation propagates.    *)
(***************************************************************************)
EXTENDS Integers, Sequences, FiniteSets, TLC

\* ------------------------------------------------------------- bounds
\* Number of quoted price levels a bar's fields are drawn from.
MaxPrice == 3
\* Number of bars of price_data a run of create_orders walks through.
MaxBars == 3

\* Number of rows of price_df the crossover loop walks through.
MaxRows == 3
\* Number of price levels the crossover rows' open, close and ema_200 take.
MaxLevel == 2

\* Number of orders a variant handed to plot_performance has at most, and number
\* of distinct order dates.
MaxOrders == 2

\* Number of pending orders the broker holds when the live runner starts.
MaxPending == 2
\* Number of transactions in a list handed to get_risk_pct.
MaxTrans == 5

\* ---------------------------------------------------- program constants
\* round(..., 5): the number of decimals take-profit prices are rounded to.
Digits == 5
\* time.hour == 8: the hour of the daily reset bar.
ResetHour == 8

\* timedelta(hours=1): the offset of a crossover order's date, in hours.
OneHour == 1
\* round(el.pnl, 4): the number of decimals plot_performance keeps of a pnl.
PnlDigits == 4

\* ------------------------------------------------------ float arithmetic
\* Units per 1.0: one decimal more than round() keeps.
Scale == 10 ^ (Digits + 1)
\* Units per 10^-Digits, the grid round(x, 5) rounds to.
Tick == Scale \div (10 ^ Digits)
\* float('nan'): outside every price and every sum of prices of the model.
NaN == 0 - (Scale * 1000)

isnan(x) == x = NaN

\* IEEE comparisons: false as soon as one side is NaN.
Gt(a, b) == ~isnan(a) /\ ~isnan(b) /\ a > b
Lt(a, b) == ~isnan(a) /\ ~isnan(b) /\ a < b
Ge(a, b) == ~isnan(a) /\ ~isnan(b) /\ a >= b
Le(a, b) == ~isnan(a) /\ ~isnan(b) /\ a =< b

\* IEEE arithmetic: NaN propagates.
Plus(a, b) == IF isnan(a) \/ isnan(b) THEN NaN ELSE a + b
Minus(a, b) == IF isnan(a) \/ isnan(b) THEN NaN ELSE a - b
Times(a, k) == IF isnan(a) THEN NaN ELSE a * k

\* x * 1.5 (x a multiple of two units).
TimesOneAndHalf(x) == IF isnan(x) THEN NaN ELSE (x * 3) \div 2

\* round(x, 5): to the nearest multiple of Tick, ties to the even multiple.
Round5(x) ==
    IF isnan(x) THEN NaN
    ELSE LET q == x \div Tick
             r == x % Tick
         IN  IF 2 * r < Tick THEN q * Tick
             ELSE IF 2 * r > Tick THEN (q + 1) * Tick
             ELSE IF q % 2 = 0 THEN q * Tick ELSE (q + 1) * Tick

\* adj / 10000 in the callers: an adjustment given in pips.
Pips(a) == a * (Scale \div 10000)

\* ------------------------------------------------------------- orders
PENDING == "PENDING"
FILLED == "FILLED"
CANCELLED == "CANCELLED"
LONG == "long"
SHORT == "short"

\* An unset fill date.
NoDate == [t |-> 0, hour |-> 0]

\* Mutant of OrderValid: the ordering is checked without strictness.
OrderValidLoose(side, entry, sl, tp) ==
    IF side = LONG THEN Le(sl, entry) /\ Le(entry, tp)
    ELSE Le(tp, entry) /\ Le(entry, sl)

\* The order entity's ordering invariant: for LONG stop < entry < target,
\* for SHORT target < entry < stop.
OrderValid(side, entry, sl, tp) ==
    IF side = LONG THEN Lt(sl, entry) /\ Lt(entry, tp)
    ELSE Lt(tp, entry) /\ Lt(entry, sl)

\* Order(order_date, side, entry, sl, tp, pnl, status)
Order(order_date, side, entry, sl, tp, pnl, status) ==
    [order_date |-> order_date, side |-> side, entry |-> entry, sl |-> sl,
     tp |-> tp, pnl |-> pnl, status |-> status, fill_date |-> NoDate]

is_long(o) == o.side = LONG
is_short(o) == o.side = SHORT

\* order.fill(time)
fill(o, time) == [o EXCEPT !.status = FILLED, !.fill_date = time]

\* ============================================================ breakout
\* create_orders(price_data, adj, verify_ema) of strategies/london_breakout.py
VARIABLES
    adj,         \* create_orders' adj argument
    verify_ema,  \* create_orders' verify_ema argument
    orders,      \* the local list of orders
    ohlc,        \* the bar of the last loop iteration
    n,           \* number of bars of price_data consumed
    pc           \* "loop", "returned", or "raised" (an exception left the function)

bvars == <<adj, verify_ema, orders, ohlc, n, pc>>

\* The state of the crossover script (strategies/macd_crossover.py, __main__).
VARIABLES
    morders,   \* the list of orders
    rec,       \* the record of the last loop iteration
    nrows,         \* number of rows of price_df consumed
    mpc        \* "loop", "done", or "raised" (an exception ended the script)

mvars == <<morders, rec, nrows, mpc>>

\* The state of plot_performance(strats, tp_adjustments).
VARIABLES
    strats,    \* the argument: one list of orders per variant
    df,        \* the frame: the date index and the pnl columns assigned so far
    grp_by,    \* the grouped frame: per date the pnl and cumsum columns
    pidx,      \* number of iterations of the first loop done
    ppc        \* "start", "assign", "shown", or "raised" (an exception left the function)

pvars == <<strats, df, grp_by, pidx, ppc>>

\* The state of run(live_run) of trading/london_breakout.py and of the broker
\* it talks to.
VARIABLES
    live_run,        \* run's argument
    weekday,         \* datetime.today().weekday()
    broker,          \* the pending orders the broker holds
    pending_orders,  \* cancel_pending_orders' local list
    cidx,            \* number of entries of pending_orders the loop has visited
    calls,           \* the cancel_order and placing_order calls made so far
    failed,          \* the external call that failed, or "none"
    logged,          \* whether line 155 logged an error
    run_risk,        \* run's risk_pct in percent, 0 before it is computed
    rpc              \* the position in run, "done" (returned) or "raised"

rvars == <<live_run, weekday, broker, pending_orders, cidx, calls, failed, logged,
           run_risk, rpc>>

\* The state of a call get_risk_pct(trans).
VARIABLES
    trans,      \* the argument
    risk_pct,   \* the value returned, in percent, 0 before the return
    kpc         \* "called" or "returned"

kvars == <<trans, risk_pct, kpc>>

\* The calls of __main__: adj in pips and verify_ema.
Variants == {<<0, FALSE>>, <<5, FALSE>>, <<10, FALSE>>, <<5, TRUE>>}

\* Quoted prices: MaxPrice levels just above 1.0, multiples of 10^-Digits.
Quotes == {Scale + k * Tick : k \in 1..MaxPrice}
\* The low and the high of a candle that gaps through every quoted level.
GapLow == Scale
GapHigh == Scale + (MaxPrice + 1) * Tick
GapQuotes == Quotes \cup {GapLow, GapHigh}
Hours == {ResetHour, ResetHour + 1}

NoBar == [time |-> NoDate, high |-> NaN, low |-> NaN,
          last_8_high |-> NaN, last_8_low |-> NaN, ema |-> NaN]

\* The rows price_data can hold, before their timestamp is set.  A candle has
\* low <= high, both on quoted levels, or it is the candle that gaps through
\* all of them; the rolling range of a reset bar lies on quoted levels.  The rolling columns (rolling(8).max() of high, rolling(8).min()
\* of low, windows that end at the row itself) are undefined together or bound
\* the row's own range: last_8_low <= low <= high <= last_8_high.  Columns the
\* code never reads are not varied: the rolling values of a bar of another hour
\* than the reset hour are the bar's own range, and ema is carried only by the
\* reset bars of a run with verify_ema.
Rows(emas) ==
    {[time |-> [t |-> 0, hour |-> h], high |-> hi, low |-> lo,
      last_8_high |-> rh, last_8_low |-> rl, ema |-> e] :
        h \in Hours, hi \in GapQuotes, lo \in GapQuotes,
        rh \in GapQuotes \cup {NaN}, rl \in GapQuotes \cup {NaN}, e \in emas}

\* Mutant of WellFormedBar: the rolling columns need not bound the bar's range.
WellFormedBarUnbounded(b) ==
    /\ b.low =< b.high
    /\ \/ b.low \in Quotes /\ b.high \in Quotes
       \/ b.low = GapLow /\ b.high = GapHigh
    /\ isnan(b.last_8_high) <=> isnan(b.last_8_low)
    /\ ~isnan(b.last_8_high) => b.last_8_low =< b.last_8_high
    /\ (~isnan(b.last_8_high) /\ b.time.hour # ResetHour)
          => (b.last_8_high = b.high /\ b.last_8_low = b.low)
    /\ (~isnan(b.last_8_high) /\ b.time.hour = ResetHour)
          => (b.last_8_high \in Quotes /\ b.last_8_low \in Quotes)
    /\ (isnan(b.last_8_high) \/ b.time.hour # ResetHour) => isnan(b.ema)

WellFormedBar(b) ==
    /\ b.low =< b.high
    /\ \/ b.low \in Quotes /\ b.high \in Quotes
       \/ b.low = GapLow /\ b.high = GapHigh
    /\ isnan(b.last_8_high) <=> isnan(b.last_8_low)
    /\ ~isnan(b.last_8_high) => (b.last_8_low =< b.low /\ b.high =< b.last_8_high)
    /\ (~isnan(b.last_8_high) /\ b.time.hour # ResetHour)
          => (b.last_8_high = b.high /\ b.last_8_low = b.low)
    /\ (~isnan(b.last_8_high) /\ b.time.hour = ResetHour)
          => (b.last_8_high \in Quotes /\ b.last_8_low \in Quotes)
    /\ (isnan(b.last_8_high) \/ b.time.hour # ResetHour) => isnan(b.ema)

RowsNoEma == {b \in Rows({NaN}) : WellFormedBar(b)}
\* The ema column: undefined, or on every second quoted level, so that a bar
\* lies above it, below it or across it.
EmaVals == {NaN} \cup {Scale + 2 * j * Tick : j \in 1..(MaxPrice \div 2)}
RowsEma == {b \in Rows(EmaVals) : WellFormedBar(b)}

\* price_data's row at position t: the timestamp is the position and the hour.
Bars(t, verify) ==
    {[b EXCEPT !.time.t = t] : b \in IF verify THEN RowsEma ELSE RowsNoEma}

\* Mutant of CancelPending: nothing expires.
CancelNothing(os) == os

\* Mutant of CancelPending: the expiry also cancels orders that are FILLED.
CancelOpen(os) ==
    [i \in 1..Len(os) |->
        IF os[i].status \in {PENDING, FILLED} THEN [os[i] EXCEPT !.status = CANCELLED]
        ELSE os[i]]

\* for order in [el for el in orders if el.status == PENDING]: order.status = CANCELLED
CancelPending(os) ==
    [i \in 1..Len(os) |->
        IF os[i].status = PENDING THEN [os[i] EXCEPT !.status = CANCELLED] ELSE os[i]]

\* Mutant of buy_tp: the range is not added to the high.
buy_tp_flat(b, a) == Round5(Plus(b.last_8_high, a))

buy_tp(b, a) == Round5(Plus(Minus(Times(b.last_8_high, 2), b.last_8_low), a))
buy_sl(b) == b.last_8_low
sell_tp(b, a) == Round5(Minus(Minus(Times(b.last_8_low, 2), b.last_8_high), a))
sell_sl(b) == b.last_8_high
buy_entry(b, a) == b.last_8_high
sell_entry(b, a) == b.last_8_low

\* The arguments of the Order(...) calls a reset bar makes, in call order.
LongArgs(b, a) == <<b.time, LONG, buy_entry(b, a), buy_sl(b), buy_tp(b, a)>>
ShortArgs(b, a) == <<b.time, SHORT, sell_entry(b, a), sell_sl(b), sell_tp(b, a)>>

\* Mutant of NewOrders: the short branch is an "if" of its own, not an "elif".
NewOrdersNoElif(b, a, verify) ==
    IF verify
    THEN (IF Ge(b.low, b.ema) THEN <<LongArgs(b, a)>> ELSE <<>>)
         \o (IF Le(b.high, b.ema) THEN <<ShortArgs(b, a)>> ELSE <<>>)
    ELSE <<LongArgs(b, a), ShortArgs(b, a)>>

NewOrders(b, a, verify) ==
    IF verify
    THEN IF Ge(b.low, b.ema) THEN <<LongArgs(b, a)>>
         ELSE IF Le(b.high, b.ema) THEN <<ShortArgs(b, a)>>
         ELSE <<>>
    ELSE <<LongArgs(b, a), ShortArgs(b, a)>>

ArgsValid(x) == OrderValid(x[2], x[3], x[4], x[5])
Construct(x) == Order(x[1], x[2], x[3], x[4], x[5], 0, PENDING)

\* The orders appended before the first rejected construction, if any.
RECURSIVE Appended(_)
Appended(xs) ==
    IF xs = <<>> \/ ~ArgsValid(Head(xs)) THEN <<>>
    ELSE <<Construct(Head(xs))>> \o Appended(Tail(xs))

\* Mutant of FillTest: touching the entry fills.
FillTestInclusive(o, b) ==
    IF is_long(o) THEN Ge(b.high, o.entry)
    ELSE IF is_short(o) THEN Le(b.low, o.entry)
    ELSE FALSE

\* if ohlc['high'] > order.entry (long) / if ohlc['low'] < order.entry (short)
FillTest(o, b) ==
    IF is_long(o) THEN Gt(b.high, o.entry)
    ELSE IF is_short(o) THEN Lt(b.low, o.entry)
    ELSE FALSE

\* for order in orders: try to fill pending orders
TryFill(os, b) ==
    [i \in 1..Len(os) |->
        IF os[i].status = PENDING /\ FillTest(os[i], b) THEN fill(os[i], b.time)
        ELSE os[i]]

\* Mutant of ResetOrders: the fill loop runs before the expiry.
ResetOrdersFillFirst(os, b, a, verify) ==
    CancelPending(TryFill(os, b)) \o Appended(NewOrders(b, a, verify))

\* The body of one loop iteration on a reset bar, up to the fill loop.
ResetOrders(os, b, a, verify) == CancelPending(os) \o Appended(NewOrders(b, a, verify))

BInit ==
    /\ \E v \in Variants : adj = Pips(v[1]) /\ verify_ema = v[2]
    /\ orders = <<>>
    /\ ohlc = NoBar
    /\ n = 0
    /\ pc = "loop"

\* if math.isnan(ohlc['last_8_high']): continue
SkipBar ==
    /\ pc = "loop" /\ n < MaxBars
    /\ \E b \in Bars(n + 1, verify_ema) :
        /\ isnan(b.last_8_high)
        /\ ohlc' = b
    /\ n' = n + 1
    /\ UNCHANGED <<adj, verify_ema, orders, pc, mvars, pvars, rvars, kvars>>

\* time.hour == 8: expire, place the day's orders, then the fill loop.
ResetBar ==
    /\ pc = "loop" /\ n < MaxBars
    /\ \E b \in Bars(n + 1, verify_ema) :
        /\ ~isnan(b.last_8_high)
        /\ b.time.hour = ResetHour
        /\ \A i \in 1..Len(NewOrders(b, adj, verify_ema)) :
              ArgsValid(NewOrders(b, adj, verify_ema)[i])
        /\ ohlc' = b
        /\ orders' = TryFill(ResetOrders(orders, b, adj, verify_ema), b)
    /\ n' = n + 1
    /\ UNCHANGED <<adj, verify_ema, pc, mvars, pvars, rvars, kvars>>

\* time.hour == 8 and an Order(...) construction is rejected: the exception
\* leaves create_orders, after the expiry and the appends already made.
ResetBarRejected ==
    /\ pc = "loop" /\ n < MaxBars
    /\ \E b \in Bars(n + 1, verify_ema) :
        /\ ~isnan(b.last_8_high)
        /\ b.time.hour = ResetHour
        /\ \E i \in 1..Len(NewOrders(b, adj, verify_ema)) :
              ~ArgsValid(NewOrders(b, adj, verify_ema)[i])
        /\ ohlc' = b
        /\ orders' = ResetOrders(orders, b, adj, verify_ema)
    /\ n' = n + 1
    /\ pc' = "raised"
    /\ UNCHANGED <<adj, verify_ema, mvars, pvars, rvars, kvars>>

\* Any other bar with defined rolling columns: the fill loop alone.
PlainBar ==
    /\ pc = "loop" /\ n < MaxBars
    /\ \E b \in Bars(n + 1, verify_ema) :
        /\ ~isnan(b.last_8_high)
        /\ b.time.hour # ResetHour
        /\ ohlc' = b
        /\ orders' = TryFill(orders, b)
    /\ n' = n + 1
    /\ UNCHANGED <<adj, verify_ema, pc, mvars, pvars, rvars, kvars>>

\* price_data is exhausted: return orders
Return ==
    /\ pc = "loop"
    /\ pc' = "returned"
    /\ UNCHANGED <<adj, verify_ema, orders, ohlc, n, mvars, pvars, rvars, kvars>>

\* create_orders while the crossover script is the program under study.
BIdle ==
    /\ adj = 0
    /\ verify_ema = FALSE
    /\ orders = <<>>
    /\ ohlc = NoBar
    /\ n = 0
    /\ pc = "idle"

BNext == SkipBar \/ ResetBar \/ ResetBarRejected \/ PlainBar \/ Return

\* =========================================================== crossover
\* The order generation loop of strategies/macd_crossover.py (__main__).

\* Values of the columns: opens on MaxLevel levels above 1.0, the MACD line on both
\* sides of zero, the signal line below and above every MACD value, the ATR
\* zero or positive; any indicator may be undefined.
Levels == {Scale + 2 * j * Tick : j \in 1..MaxLevel}
MacdVals == {NaN, 0 - Tick, 0, Tick}
SignalVals == {NaN, 0 - (2 * Tick), 2 * Tick}
AtrVals == {NaN, 0, 2 * Tick}
\* The close below, on and above the one defined value of the 200-period EMA.
EmaLevel == Scale + 4 * Tick
CloseVals == {EmaLevel - 2 * Tick, EmaLevel, EmaLevel + 2 * Tick}
Ema200Vals == {NaN, EmaLevel}

NoRec == [time |-> 0, open |-> NaN, close |-> NaN, macd |-> NaN, signal |-> NaN,
          ema_200 |-> NaN, atr |-> NaN, comparison |-> 0, cross |-> NaN,
          next_open |-> NaN]

\* np.where(price_df['macd'] > price_df['signal'], 1, 0)
Comparison(macd, signal) == IF Gt(macd, signal) THEN 1 ELSE 0

\* price_df['comparison'].diff(): undefined on the first row.
Cross(first, prev_comparison, comparison) ==
    IF first THEN NaN ELSE comparison - prev_comparison

\* The row of price_df at position nrows + 1 as the loop sees it: the columns read
\* from the file, comparison and cross computed from them and the previous
\* row, next_open = open.shift(-1) (undefined on the last row).
NextRecs ==
    {[time |-> nrows + 1, open |-> op, close |-> cl, macd |-> m, signal |-> sg,
      ema_200 |-> e, atr |-> a,
      comparison |-> Comparison(m, sg),
      cross |-> Cross(nrows = 0, rec.comparison, Comparison(m, sg)),
      next_open |-> no] :
        op \in IF nrows = 0 THEN Levels ELSE {rec.next_open},
        cl \in CloseVals, m \in MacdVals, sg \in SignalVals,
        e \in Ema200Vals, a \in AtrVals,
        no \in IF nrows + 1 = MaxRows THEN {NaN} ELSE Levels \cup {NaN}}

\* if ohlc['cross'] == 1 and ohlc['close'] > ohlc['ema_200'] and ohlc['macd'] < 0
BuySignal(r) == r.cross = 1 /\ Gt(r.close, r.ema_200) /\ Lt(r.macd, 0)
\* if ohlc['cross'] == -1 and ohlc['close'] < ohlc['ema_200'] and ohlc['macd'] > 0
SellSignal(r) == r.cross = 0 - 1 /\ Lt(r.close, r.ema_200) /\ Gt(r.macd, 0)

\* Mutant of MEntry: the entry is the crossing bar's own open.
MEntryOwnOpen(r) == r.open

\* entry = ohlc['next_open']
MEntry(r) == r.next_open

BuyArgs(r) ==
    <<r.time + OneHour, LONG, MEntry(r), Minus(MEntry(r), r.atr),
      Plus(MEntry(r), TimesOneAndHalf(r.atr))>>
SellArgs(r) ==
    <<r.time + OneHour, SHORT, MEntry(r), Plus(MEntry(r), r.atr),
      Minus(MEntry(r), TimesOneAndHalf(r.atr))>>

\* The Order(...) calls one iteration makes, in call order.
MNewOrders(r) ==
    (IF BuySignal(r) THEN <<BuyArgs(r)>> ELSE <<>>)
    \o (IF SellSignal(r) THEN <<SellArgs(r)>> ELSE <<>>)

MInit ==
    /\ morders = <<>>
    /\ rec = NoRec
    /\ nrows = 0
    /\ mpc = "loop"

\* The loop has a next row when none was read yet or the last one was not the
\* last of price_df.
HasNext == nrows < MaxRows /\ (nrows = 0 \/ ~isnan(rec.next_open))

\* An iteration that appends no order.
NoSignalRow ==
    /\ mpc = "loop" /\ HasNext
    /\ \E r \in NextRecs :
        /\ MNewOrders(r) = <<>>
        /\ rec' = r
    /\ nrows' = nrows + 1
    /\ UNCHANGED <<morders, mpc, bvars, pvars, rvars, kvars>>

\* An iteration whose Order(...) is constructed and appended.
SignalRow ==
    /\ mpc = "loop" /\ HasNext
    /\ \E r \in NextRecs :
        /\ MNewOrders(r) # <<>>
        /\ \A i \in 1..Len(MNewOrders(r)) : ArgsValid(MNewOrders(r)[i])
        /\ rec' = r
        /\ morders' = morders \o Appended(MNewOrders(r))
    /\ nrows' = nrows + 1
    /\ UNCHANGED <<mpc, bvars, pvars, rvars, kvars>>

\* An iteration whose Order(...) construction is rejected: the exception ends
\* the script.
SignalRowRejected ==
    /\ mpc = "loop" /\ HasNext
    /\ \E r \in NextRecs :
        /\ \E i \in 1..Len(MNewOrders(r)) : ~ArgsValid(MNewOrders(r)[i])
        /\ rec' = r
        /\ morders' = morders \o Appended(MNewOrders(r))
    /\ nrows' = nrows + 1
    /\ mpc' = "raised"
    /\ UNCHANGED <<bvars, pvars, rvars, kvars>>

\* price_df is exhausted.
LoopEnd ==
    /\ mpc = "loop" /\ ~HasNext
    /\ mpc' = "done"
    /\ UNCHANGED <<morders, rec, nrows, bvars, pvars, rvars, kvars>>

MNext == NoSignalRow \/ SignalRow \/ SignalRowRejected \/ LoopEnd

\* The crossover script while create_orders is the program under study.
MIdle ==
    /\ morders = <<>>
    /\ rec = NoRec
    /\ nrows = 0
    /\ mpc = "idle"

\* ==================================================== plot_performance
\* plot_performance(strats, tp_adjustments) of strategies/london_breakout.py.
\* A pnl is an integer number of units of 10^-(PnlDigits+1).

\* Units per 10^-PnlDigits, the grid round(el.pnl, 4) rounds to.
PnlTick == 10 ^ (PnlDigits + 1) \div (10 ^ PnlDigits)

\* round(el.pnl, 4): to the nearest multiple of PnlTick, ties to the even one.
Round4(x) ==
    LET q == x \div PnlTick
        r == x % PnlTick
    IN  IF 2 * r < PnlTick THEN q * PnlTick
        ELSE IF 2 * r > PnlTick THEN (q + 1) * PnlTick
        ELSE IF q % 2 = 0 THEN q * PnlTick ELSE (q + 1) * PnlTick

\* The tp_adjustments argument: one column name per variant.
tp_adjustments == <<0, 5>>

\* Values of an order's pnl: a loss off the rounding grid, nothing, a gain.
PnlVals == {0 - 12, 0, 20}
\* Values of an order's order_date.
Dates == 1..MaxOrders

\* The order lists a variant can have: what plot_performance reads of an
\* order, in order of creation (dates do not decrease).
OrderLists ==
    UNION {{os \in [1..len -> [order_date : Dates, pnl : PnlVals]] :
               \A k \in 1..(len - 1) : os[k].order_date =< os[k + 1].order_date} :
           len \in 0..MaxOrders}

\* The lists of variants plot_performance is called with: one list of orders
\* per entry of tp_adjustments, the first with at least one order.
StratsArgs ==
    {st \in [1..Len(tp_adjustments) -> OrderLists] : Len(st[1]) > 0}

NoFrame == [index |-> <<>>, cols |-> <<>>]
NoGroups == <<>>

\* [el.order_date for el in strats[0]]
DateIndex(st) == [k \in 1..Len(st[1]) |-> st[1][k].order_date]

\* [round(el.pnl, 4) for el in strats[idx]]
PnlColumn(os) == [k \in 1..Len(os) |-> Round4(os[k].pnl)]

\* The sum of the values whose key of the same position lies in keep.
RECURSIVE SumWhere(_, _, _)
SumWhere(vals, keys, keep) ==
    IF vals = <<>> THEN 0
    ELSE (IF Head(keys) \in keep THEN Head(vals) ELSE 0)
         + SumWhere(Tail(vals), Tail(keys), keep)

\* df.groupby(['date']).sum() and the cumsum of every pnl column: the rows of
\* one index date are summed per column, positions paired with the index, and
\* the running sum follows the ascending dates.
GroupCumsum(frame) ==
    [d \in {frame.index[k] : k \in 1..Len(frame.index)} |->
        [pnl |-> [i \in 1..Len(frame.cols) |-> SumWhere(frame.cols[i], frame.index, {d})],
         cumsum |-> [i \in 1..Len(frame.cols) |->
                        SumWhere(frame.cols[i], frame.index, 1..d)]]]

PInit ==
    /\ strats \in StratsArgs
    /\ df = NoFrame
    /\ grp_by = NoGroups
    /\ pidx = 0
    /\ ppc = "start"

\* df = pd.DataFrame({'date': [...]}).set_index('date')
MakeFrame ==
    /\ ppc = "start"
    /\ df' = [index |-> DateIndex(strats), cols |-> <<>>]
    /\ ppc' = "assign"
    /\ UNCHANGED <<strats, grp_by, pidx, bvars, mvars, rvars, kvars>>

\* df[f'pnl_{adj}'] = [...]: a list as long as the index becomes a column.
AssignColumn ==
    /\ ppc = "assign" /\ pidx < Len(tp_adjustments)
    /\ Len(strats[pidx + 1]) = Len(df.index)
    /\ df' = [df EXCEPT !.cols = Append(@, PnlColumn(strats[pidx + 1]))]
    /\ pidx' = pidx + 1
    /\ UNCHANGED <<strats, grp_by, ppc, bvars, mvars, rvars, kvars>>

\* df[f'pnl_{adj}'] = [...]: a list of another length than the index raises
\* ValueError, which leaves plot_performance.
AssignColumnRaises ==
    /\ ppc = "assign" /\ pidx < Len(tp_adjustments)
    /\ Len(strats[pidx + 1]) # Len(df.index)
    /\ ppc' = "raised"
    /\ UNCHANGED <<strats, df, grp_by, pidx, bvars, mvars, rvars, kvars>>

\* The grouping, the cumulative sums and the plot.
GroupAndPlot ==
    /\ ppc = "assign" /\ pidx = Len(tp_adjustments)
    /\ grp_by' = GroupCumsum(df)
    /\ ppc' = "shown"
    /\ UNCHANGED <<strats, df, pidx, bvars, mvars, rvars, kvars>>

PNext == MakeFrame \/ AssignColumn \/ AssignColumnRaises \/ GroupAndPlot

\* plot_performance while another program is under study.
PIdle ==
    /\ strats = <<>>
    /\ df = NoFrame
    /\ grp_by = NoGroups
    /\ pidx = 0
    /\ ppc = "idle"

\* ========================================================= get_risk_pct
\* get_risk_pct(trans) of trading/london_breakout.py.  A risk is an integer
\* number of percent (0.01 is 1); a pl is a float of which only the sign is
\* read.

\* Values of a transaction's pl: a loss, nothing, a gain.
Pls == {0 - 1, 0, 1}

\* The lists of transactions of at most len entries, ids in list order.
TransUpTo(len) ==
    UNION {{[k \in 1..l |-> [id |-> k, pl |-> pls[k]]] : pls \in [1..l -> Pls]} :
           l \in 0..len}

TransLists == TransUpTo(MaxTrans)

\* trans[-4:]
Last4(t) == IF Len(t) =< 4 THEN t ELSE SubSeq(t, Len(t) - 3, Len(t))

\* last_4_trans.reverse()
Reverse(t) == [k \in 1..Len(t) |-> t[Len(t) + 1 - k]]

\* The index enumerate() gives the first transaction with pl < 0, or -1 when
\* the list has none.
RECURSIVE FirstLoss(_, _)
FirstLoss(rev, idx) ==
    IF rev = <<>> THEN 0 - 1
    ELSE IF Head(rev).pl < 0 THEN idx
    ELSE FirstLoss(Tail(rev), idx + 1)

\* Mutant of RiskAt: the stake grows with every win (1, 2, 3, 4).
RiskAtLinear(idx) == idx + 1

\* The returns inside the loop: 0.01, 0.03, 0.02, 0.04 by the index of the loss.
RiskAt(idx) ==
    IF idx = 0 THEN 1 ELSE IF idx = 1 THEN 3 ELSE IF idx = 2 THEN 2 ELSE 4

\* The returns after the loop: by the length of last_4_trans, 0.01 otherwise.
RiskByLen(len) ==
    IF len = 1 THEN 3 ELSE IF len = 2 THEN 2 ELSE IF len = 3 THEN 4 ELSE 1

get_risk_pct(t) ==
    LET last_4_trans == Reverse(Last4(t))
    IN  IF last_4_trans # <<>>
        THEN IF FirstLoss(last_4_trans, 0) >= 0
             THEN RiskAt(FirstLoss(last_4_trans, 0))
             ELSE RiskByLen(Len(last_4_trans))
        ELSE 1

KInit ==
    /\ trans \in TransLists
    /\ risk_pct = 0
    /\ kpc = "called"

\* The list is empty: return 0.01.
RiskOfNone ==
    /\ kpc = "called" /\ Last4(trans) = <<>>
    /\ risk_pct' = get_risk_pct(trans)
    /\ kpc' = "returned"
    /\ UNCHANGED <<trans, bvars, mvars, pvars, rvars>>

\* The loop meets a loss and returns.
RiskAtLoss ==
    /\ kpc = "called" /\ Last4(trans) # <<>>
    /\ FirstLoss(Reverse(Last4(trans)), 0) >= 0
    /\ risk_pct' = get_risk_pct(trans)
    /\ kpc' = "returned"
    /\ UNCHANGED <<trans, bvars, mvars, pvars, rvars>>

\* The loop ends without a loss: the return depends on the length.
RiskOfWins ==
    /\ kpc = "called" /\ Last4(trans) # <<>>
    /\ FirstLoss(Reverse(Last4(trans)), 0) < 0
    /\ risk_pct' = get_risk_pct(trans)
    /\ kpc' = "returned"
    /\ UNCHANGED <<trans, bvars, mvars, pvars, rvars>>

KNext == RiskOfNone \/ RiskAtLoss \/ RiskOfWins

\* get_risk_pct while another program is under study.
KIdle ==
    /\ trans = <<>>
    /\ risk_pct = 0
    /\ kpc = "idle"

\* ================================================================== run
\* run(live_run) of trading/london_breakout.py.  The calls that leave the
\* process (api_request, notify inside send_alert, get_pending_orders,
\* cancel_order, get_trans, placing_order) either succeed or fail with an
\* exception at the call; the indicator and position size computations between
\* them are formulas that change nothing the model looks at.

MARKET_IF_TOUCHED == "MARKET_IF_TOUCHED"
TAKE_PROFIT == "TAKE_PROFIT"
STOP_LOSS == "STOP_LOSS"
OrderTypes == {MARKET_IF_TOUCHED, TAKE_PROFIT, STOP_LOSS}

\* datetime.today().weekday(): Monday is 0.
Weekdays == 0..6
\* datetime.today().weekday() in (5, 6)
Weekend(d) == d \in {5, 6}

\* The pending orders the broker can hold at the start, ids in list order.
BrokerStates ==
    UNION {{[k \in 1..l |-> [id |-> k, type |-> ty[k]]] : ty \in [1..l -> OrderTypes]} :
           l \in 0..MaxPending}

\* The answers of get_trans(100).
RunTrans == {t \in TransLists : Len(t) =< 2}

\* Mutant of TakesLiveBranch: the live branch is taken on every run.
TakesLiveBranchAlways(live) == TRUE

\* if live_run:
TakesLiveBranch(live) == live

\* Mutant of ShouldCancel: every pending order is cancelled.
ShouldCancelAny(o) == TRUE

\* if o.get('type') == 'MARKET_IF_TOUCHED':
ShouldCancel(o) == o.type = MARKET_IF_TOUCHED

\* [{...} for t in trans if t.get('pl') and t.get('pl') != '0.0000']
ClosedTrades(t) == SelectSeq(t, LAMBDA x : x.pl # 0)

\* A cancel_order(id) call and a placing_order(side=...) call, with their outcome.
CancelCall(id, ok) == [op |-> "cancel_order", id |-> id, side |-> "none", ok |-> ok]
PlaceCall(side, ok) == [op |-> "placing_order", id |-> 0, side |-> side, ok |-> ok]

\* The broker's pending orders without the one cancelled / with the one placed.
Without(b, id) == SelectSeq(b, LAMBDA o : o.id # id)
With(b, id) == Append(b, [id |-> id, type |-> MARKET_IF_TOUCHED])

RInit ==
    /\ live_run \in BOOLEAN
    /\ weekday \in Weekdays
    /\ broker \in BrokerStates
    /\ pending_orders = <<>>
    /\ cidx = 0
    /\ calls = <<>>
    /\ failed = "none"
    /\ logged = FALSE
    /\ run_risk = 0
    /\ rpc = "start"

\* if datetime.today().weekday() in (5, 6): return
WeekendReturn ==
    /\ rpc = "start" /\ Weekend(weekday)
    /\ rpc' = "done"
    /\ UNCHANGED <<live_run, weekday, broker, pending_orders, cidx, calls, failed,
                   logged, run_risk, bvars, mvars, pvars, kvars>>

\* resp = api_request(...) and everything up to send_alert.
ApiRequest ==
    /\ rpc = "start" /\ ~Weekend(weekday)
    /\ rpc' = "alert"
    /\ UNCHANGED <<live_run, weekday, broker, pending_orders, cidx, calls, failed,
                   logged, run_risk, bvars, mvars, pvars, kvars>>

\* api_request fails: no handler encloses line 119.
ApiRequestFails ==
    /\ rpc = "start" /\ ~Weekend(weekday)
    /\ failed' = "api_request"
    /\ rpc' = "raised"
    /\ UNCHANGED <<live_run, weekday, broker, pending_orders, cidx, calls,
                   logged, run_risk, bvars, mvars, pvars, kvars>>

\* send_alert(...): the notification.
SendAlert ==
    /\ rpc = "alert"
    /\ rpc' = "branch"
    /\ UNCHANGED <<live_run, weekday, broker, pending_orders, cidx, calls, failed,
                   logged, run_risk, bvars, mvars, pvars, kvars>>

\* notify fails: no handler encloses line 142.
SendAlertFails ==
    /\ rpc = "alert"
    /\ failed' = "notify"
    /\ rpc' = "raised"
    /\ UNCHANGED <<live_run, weekday, broker, pending_orders, cidx, calls,
                   logged, run_risk, bvars, mvars, pvars, kvars>>

\* else: logging.info('Dry run only for testing.')
DryRun ==
    /\ rpc = "branch" /\ ~TakesLiveBranch(live_run)
    /\ rpc' = "done"
    /\ UNCHANGED <<live_run, weekday, broker, pending_orders, cidx, calls, failed,
                   logged, run_risk, bvars, mvars, pvars, kvars>>

\* cancel_pending_orders: pending_orders = get_pending_orders()
GetPendingOrders ==
    /\ rpc = "branch" /\ TakesLiveBranch(live_run)
    /\ pending_orders' = broker
    /\ cidx' = 0
    /\ rpc' = "cancel"
    /\ UNCHANGED <<live_run, weekday, broker, calls, failed,
                   logged, run_risk, bvars, mvars, pvars, kvars>>

\* get_pending_orders fails: the handler of line 154 logs and run returns.
GetPendingOrdersFails ==
    /\ rpc = "branch" /\ TakesLiveBranch(live_run)
    /\ failed' = "get_pending_orders"
    /\ logged' = TRUE
    /\ rpc' = "done"
    /\ UNCHANGED <<live_run, weekday, broker, pending_orders, cidx, calls,
                   run_risk, bvars, mvars, pvars, kvars>>

\* cancel_order(o.get('id')) for an order the type test selects.
CancelOrder ==
    /\ rpc = "cancel" /\ cidx < Len(pending_orders)
    /\ ShouldCancel(pending_orders[cidx + 1])
    /\ calls' = Append(calls, CancelCall(pending_orders[cidx + 1].id, TRUE))
    /\ broker' = Without(broker, pending_orders[cidx + 1].id)
    /\ cidx' = cidx + 1
    /\ UNCHANGED <<live_run, weekday, pending_orders, failed,
                   logged, run_risk, rpc, bvars, mvars, pvars, kvars>>

\* cancel_order fails: the handler of line 154 logs and run returns.
CancelOrderFails ==
    /\ rpc = "cancel" /\ cidx < Len(pending_orders)
    /\ ShouldCancel(pending_orders[cidx + 1])
    /\ calls' = Append(calls, CancelCall(pending_orders[cidx + 1].id, FALSE))
    /\ failed' = "cancel_order"
    /\ logged' = TRUE
    /\ rpc' = "done"
    /\ UNCHANGED <<live_run, weekday, broker, pending_orders, cidx,
                   run_risk, bvars, mvars, pvars, kvars>>

\* An order the type test passes over.
KeepOrder ==
    /\ rpc = "cancel" /\ cidx < Len(pending_orders)
    /\ ~ShouldCancel(pending_orders[cidx + 1])
    /\ cidx' = cidx + 1
    /\ UNCHANGED <<live_run, weekday, broker, pending_orders, calls, failed,
                   logged, run_risk, rpc, bvars, mvars, pvars, kvars>>

\* trans = get_trans(100), risk_pct = get_risk_pct(...) and the position size.
GetTrans ==
    /\ rpc = "cancel" /\ cidx = Len(pending_orders)
    /\ \E t \in RunTrans : run_risk' = get_risk_pct(ClosedTrades(t))
    /\ rpc' = "buy"
    /\ UNCHANGED <<live_run, weekday, broker, pending_orders, cidx, calls, failed,
                   logged, bvars, mvars, pvars, kvars>>

\* get_trans fails: the handler of line 154 logs and run returns.
GetTransFails ==
    /\ rpc = "cancel" /\ cidx = Len(pending_orders)
    /\ failed' = "get_trans"
    /\ logged' = TRUE
    /\ rpc' = "done"
    /\ UNCHANGED <<live_run, weekday, broker, pending_orders, cidx, calls,
                   run_risk, bvars, mvars, pvars, kvars>>

\* placing_order(..., side='buy', ...)
PlaceBuy ==
    /\ rpc = "buy"
    /\ calls' = Append(calls, PlaceCall("buy", TRUE))
    /\ broker' = With(broker, MaxPending + 1)
    /\ rpc' = "sell"
    /\ UNCHANGED <<live_run, weekday, pending_orders, cidx, failed,
                   logged, run_risk, bvars, mvars, pvars, kvars>>

\* The buy placement fails: the handler of line 154 logs and run returns.
PlaceBuyFails ==
    /\ rpc = "buy"
    /\ calls' = Append(calls, PlaceCall("buy", FALSE))
    /\ failed' = "placing_order buy"
    /\ logged' = TRUE
    /\ rpc' = "done"
    /\ UNCHANGED <<live_run, weekday, broker, pending_orders, cidx,
                   run_risk, bvars, mvars, pvars, kvars>>

\* placing_order(..., side='sell', ...)
PlaceSell ==
    /\ rpc = "sell"
    /\ calls' = Append(calls, PlaceCall("sell", TRUE))
    /\ broker' = With(broker, MaxPending + 2)
    /\ rpc' = "done"
    /\ UNCHANGED <<live_run, weekday, pending_orders, cidx, failed,
                   logged, run_risk, bvars, mvars, pvars, kvars>>

\* The sell placement fails: the handler of line 154 logs and run returns.
PlaceSellFails ==
    /\ rpc = "sell"
    /\ calls' = Append(calls, PlaceCall("sell", FALSE))
    /\ failed' = "placing_order sell"
    /\ logged' = TRUE
    /\ rpc' = "done"
    /\ UNCHANGED <<live_run, weekday, broker, pending_orders, cidx,
                   run_risk, bvars, mvars, pvars, kvars>>

RNext ==
    \/ WeekendReturn \/ ApiRequest \/ ApiRequestFails \/ SendAlert \/ SendAlertFails
    \/ DryRun \/ GetPendingOrders \/ GetPendingOrdersFails
    \/ CancelOrder \/ CancelOrderFails \/ KeepOrder \/ GetTrans \/ GetTransFails
    \/ PlaceBuy \/ PlaceBuyFails \/ PlaceSell \/ PlaceSellFails

\* run while another program is under study.
RIdle ==
    /\ live_run = FALSE
    /\ weekday = 0
    /\ broker = <<>>
    /\ pending_orders = <<>>
    /\ cidx = 0
    /\ calls = <<>>
    /\ failed = "none"
    /\ logged = FALSE
    /\ run_risk = 0
    /\ rpc = "idle"

vars == <<bvars, mvars, pvars, rvars, kvars>>

\* ------------------------------------------------- breakout: properties
\* A step of the loop: one more bar of price_data has been consumed.
Iterated == n' = n + 1
\* The bar just consumed is a reset bar with defined rolling columns.
IsReset(b) == b.time.hour = ResetHour /\ ~isnan(b.last_8_high)
\* The orders placed at bar b.
DatedAt(os, b) == {i \in 1..Len(os) : os[i].order_date = b.time}
\* The fill condition as the spec states it.
WouldFill(o, b) ==
    \/ o.side = LONG /\ ~isnan(b.high) /\ b.high > o.entry
    \/ o.side = SHORT /\ ~isnan(b.low) /\ b.low < o.entry

\* C1: at every bar of hour 08 with defined last_8_high, every order that is
\* PENDING when the bar is reached ends the bar CANCELLED (so it is not FILLED
\* on that bar, whatever the bar's high and low), and an order that is
\* CANCELLED stays CANCELLED on every later bar.
C1_ExpiryBeforeFill ==
    [][/\ (Iterated /\ IsReset(ohlc')) =>
            \A i \in 1..Len(orders) :
                orders[i].status = PENDING =>
                    /\ i <= Len(orders')
                    /\ orders'[i].status = CANCELLED
                    /\ orders'[i].fill_date = NoDate
       /\ \A i \in 1..Len(orders) :
            orders[i].status = CANCELLED =>
                i <= Len(orders') /\ orders'[i].status = CANCELLED]_vars

\* C1 witness: an order placed at the previous bar was expired by a reset bar
\* whose range would have filled it.
C1_Witness ==
    /\ IsReset(ohlc)
    /\ \E i \in 1..Len(orders) :
        /\ orders[i].order_date.t + 1 = ohlc.time.t
        /\ orders[i].status = CANCELLED
        /\ WouldFill(orders[i], ohlc)

\* C2: an order's status changes only PENDING -> FILLED or PENDING ->
\* CANCELLED; FILLED and CANCELLED orders keep their status, no order is
\* dropped from the list and none returns to PENDING.
C2_StatusTransitions ==
    [][\A i \in 1..Len(orders) :
        /\ i <= Len(orders')
        /\ \/ orders'[i].status = orders[i].status
           \/ orders[i].status = PENDING /\ orders'[i].status \in {FILLED, CANCELLED}]_vars

\* C2 witness: an order filled on an earlier bar is still FILLED after a reset
\* bar, next to an order that bar expired.
C2_Witness ==
    /\ IsReset(ohlc)
    /\ \E i, j \in 1..Len(orders) :
        /\ orders[i].status = FILLED /\ orders[i].fill_date.t < ohlc.time.t
        /\ orders[j].status = CANCELLED

\* C3: on every processed bar (defined last_8_high) the orders that reach the
\* fill loop PENDING (the orders already PENDING on a bar that is no reset
\* bar, the orders just placed on a reset bar) end the bar FILLED, with the
\* bar's timestamp as fill date, exactly when the bar's high is strictly above
\* (LONG) or its low strictly below (SHORT) the entry, and PENDING otherwise.
C3_FillRule ==
    [][(Iterated /\ ~isnan(ohlc'.last_8_high) /\ pc' = "loop") =>
        \A i \in 1..Len(orders') :
            (IF i <= Len(orders) THEN orders[i].status = PENDING /\ ~IsReset(ohlc')
             ELSE TRUE) =>
                IF WouldFill(orders'[i], ohlc')
                THEN orders'[i].status = FILLED /\ orders'[i].fill_date = ohlc'.time
                ELSE orders'[i].status = PENDING /\ orders'[i].fill_date = NoDate]_vars

\* C3 witness: one bar fills a SHORT order by trading below its entry and
\* leaves a LONG order PENDING by only touching its entry.
C3_Witness ==
    /\ ~isnan(ohlc.last_8_high)
    /\ \E i, j \in 1..Len(orders) :
        /\ orders[i].side = SHORT /\ orders[i].status = FILLED
        /\ orders[i].fill_date = ohlc.time /\ ohlc.low < orders[i].entry
        /\ orders[j].side = LONG /\ orders[j].status = PENDING
        /\ orders[j].order_date.t < ohlc.time.t /\ ohlc.high = orders[j].entry

\* The LONG and SHORT orders C4 describes for reset bar b (adjustment 0).
C4_Long(b) ==
    [order_date |-> b.time, side |-> LONG, entry |-> b.last_8_high,
     sl |-> b.last_8_low, tp |-> b.last_8_high + (b.last_8_high - b.last_8_low)]
C4_Short(b) ==
    [order_date |-> b.time, side |-> SHORT, entry |-> b.last_8_low,
     sl |-> b.last_8_high, tp |-> b.last_8_low - (b.last_8_high - b.last_8_low)]
C4_Emitted(os, b) ==
    {[order_date |-> os[i].order_date, side |-> os[i].side, entry |-> os[i].entry,
      sl |-> os[i].sl, tp |-> os[i].tp] : i \in DatedAt(os, b)}

C5_EntryOffsetByAdj ==
    IsReset(ohlc) =>
        \A i \in DatedAt(orders, ohlc) :
            /\ orders[i].side = LONG =>
                (orders[i].entry = ohlc.last_8_high + adj /\ orders[i].sl = ohlc.last_8_low)
            /\ orders[i].side = SHORT =>
                (orders[i].entry = ohlc.last_8_low - adj /\ orders[i].sl = ohlc.last_8_high)

\* C6: with verify_ema every reset bar places at most one order: a LONG only
\* if bar.low >= ema, a SHORT only if bar.high <= ema, none when neither holds
\* (an undefined ema included).
C6_TrendFilter ==
    (verify_ema /\ n > 0 /\ IsReset(ohlc)) =>
        /\ Cardinality(DatedAt(orders, ohlc)) <= 1
        /\ \A i \in DatedAt(orders, ohlc) :
            /\ orders[i].side = LONG => (~isnan(ohlc.ema) /\ ohlc.low >= ohlc.ema)
            /\ orders[i].side = SHORT => (~isnan(ohlc.ema) /\ ohlc.high <= ohlc.ema)
        /\ (isnan(ohlc.ema) \/ (ohlc.low < ohlc.ema /\ ohlc.high > ohlc.ema))
              => DatedAt(orders, ohlc) = {}

\* C6 witness: a flat reset bar sitting on the ema (low >= ema and high <= ema
\* both hold) with a proper range has placed its single order.
C6_Witness ==
    /\ verify_ema /\ IsReset(ohlc)
    /\ ohlc.low = ohlc.ema /\ ohlc.high = ohlc.ema
    /\ Cardinality(DatedAt(orders, ohlc)) = 1

\* C7 as claimed: a bar with undefined last_8_high places no order and still
\* takes part in the fill evaluation: every order PENDING when the bar is
\* reached whose fill condition the bar satisfies ends the bar FILLED.
C7_NaNBarStillFills ==
    [][(Iterated /\ isnan(ohlc'.last_8_high)) =>
        /\ Len(orders') = Len(orders)
        /\ \A i \in 1..Len(orders) :
            (orders[i].status = PENDING /\ WouldFill(orders[i], ohlc'))
                => orders'[i].status = FILLED]_vars

MIterated == nrows' = nrows + 1
\* The orders the step appended.
MAppended == SubSeq(morders', Len(morders) + 1, Len(morders'))
\* The crossing conditions as the rules state them.
CrossUp(r) ==
    /\ r.cross = 1
    /\ ~isnan(r.macd) /\ r.macd < 0
    /\ ~isnan(r.close) /\ ~isnan(r.ema_200) /\ r.close > r.ema_200
CrossDown(r) ==
    /\ r.cross = 0 - 1
    /\ ~isnan(r.macd) /\ r.macd > 0
    /\ ~isnan(r.close) /\ ~isnan(r.ema_200) /\ r.close < r.ema_200
\* Row r has all the order needs: a next row and a defined, positive ATR.
C9_Priced(r) == ~isnan(r.next_open) /\ ~isnan(r.atr) /\ r.atr > 0
\* The order C9 describes for row r: entry the next row's open, stop one ATR
\* and target one and a half ATR away, dated one hour after r (prices
\* undefined where the row's are).
C9_Order(r, side) ==
    [order_date |-> r.time + 1, side |-> side, entry |-> r.next_open,
     sl |-> IF isnan(r.next_open) \/ isnan(r.atr) THEN NaN
            ELSE IF side = LONG THEN r.next_open - r.atr ELSE r.next_open + r.atr,
     tp |-> IF isnan(r.next_open) \/ isnan(r.atr) THEN NaN
            ELSE IF side = LONG THEN r.next_open + (3 * r.atr) \div 2
            ELSE r.next_open - (3 * r.atr) \div 2,
     pnl |-> 0, status |-> PENDING, fill_date |-> NoDate]

C10_Undefined(r) ==
    \/ isnan(r.macd) \/ isnan(r.signal) \/ isnan(r.cross)
    \/ isnan(r.ema_200) \/ isnan(r.atr) \/ isnan(r.next_open)

\* C10 as claimed: a row with an undefined macd, signal, cross, ema_200, atr
\* or next open is skipped: no order is appended from it.
C10_UndefinedRowSkipped ==
    [][(MIterated /\ C10_Undefined(rec')) => morders' = morders]_vars

\* --------------------------------------- claims: breakout, pairs and cycles
\* The orders of the list that are PENDING.
PendingIn(os) == {i \in 1..Len(os) : os[i].status = PENDING}

\* C18 as claimed: when the LONG and the SHORT order of a pair are both PENDING
\* and one bar (not a reset bar, which expires them first) has high > the LONG
\* entry and low < the SHORT entry, both are FILLED on that bar.
C18_BothFillOnGapBar ==
    [][(Iterated /\ ~IsReset(ohlc')) =>
        \A i, j \in PendingIn(orders) :
            ( /\ orders[i].side = LONG /\ orders[j].side = SHORT
              /\ orders[i].order_date = orders[j].order_date
              /\ ohlc'.high > orders[i].entry /\ ohlc'.low < orders[j].entry )
            => /\ orders'[i].status = FILLED /\ orders'[i].fill_date = ohlc'.time
               /\ orders'[j].status = FILLED /\ orders'[j].fill_date = ohlc'.time]_vars

\* C19: after every bar the PENDING orders are those of the last reset bar
\* (hour 08, last_8_high defined): a reset bar leaves PENDING only orders it
\* placed itself, any other bar leaves PENDING only orders that were PENDING
\* before it, and at most two orders are PENDING, at most one with verify_ema.
C19_PendingFromLastReset ==
    [][Iterated =>
        /\ IsReset(ohlc') => PendingIn(orders') \subseteq DatedAt(orders', ohlc')
        /\ ~IsReset(ohlc') => PendingIn(orders') \subseteq PendingIn(orders)
        /\ Cardinality(PendingIn(orders')) =< (IF verify_ema THEN 1 ELSE 2)]_vars

\* C19 witness: a second reset bar has cancelled the pair of the first and its
\* own pair is the only one PENDING.
C19_Witness ==
    /\ ~verify_ema /\ IsReset(ohlc) /\ Len(orders) = 4
    /\ orders[1].status = CANCELLED /\ orders[2].status = CANCELLED
    /\ PendingIn(orders) = {3, 4}

\* C20: with rolling columns that bound each reset bar's own range, no order
\* is filled on the bar that placed it: the fill bar of every FILLED order is
\* strictly later than its order_date bar.
C20_NoFillOnOwnBar ==
    \A i \in 1..Len(orders) :
        orders[i].status = FILLED => orders[i].fill_date.t > orders[i].order_date.t

\* C20 witness: an order placed at a reset bar whose high equals its
\* last_8_high has been filled on a later bar.
C20_Witness ==
    \E i \in 1..Len(orders) :
        /\ orders[i].side = LONG /\ orders[i].status = FILLED
        /\ orders[i].fill_date.t > orders[i].order_date.t
        /\ orders[i].fill_date = ohlc.time

\* ------------------------------------------------ claims: plot_performance
\* pnl (to the four decimals the frame keeps) and order_date of a variant's
\* orders, as sequences.
PnlOf(os) == [k \in 1..Len(os) |-> Round4(os[k].pnl)]
DatesOf(os) == [k \in 1..Len(os) |-> os[k].order_date]

\* C11 as claimed: plot_performance completes without error for any list of
\* variants, whatever their lengths, and a date on which a variant has no
\* order contributes 0 to that variant's pnl column.
C11_ToleratesDifferentLengths ==
    /\ ppc # "raised"
    /\ ppc = "shown" =>
        \A d \in DOMAIN grp_by : \A i \in 1..Len(strats) :
            (\A k \in 1..Len(strats[i]) : strats[i][k].order_date # d)
                => grp_by[d].pnl[i] = 0

\* C12 as claimed: in the result, cumsum_i at date d is the sum of the pnl (at
\* the frame's four decimals) of exactly those orders of variant i whose own
\* order_date is <= d.
C12_CumsumByOwnDates ==
    ppc = "shown" =>
        \A d \in DOMAIN grp_by : \A i \in 1..Len(strats) :
            grp_by[d].cumsum[i] = SumWhere(PnlOf(strats[i]), DatesOf(strats[i]), 1..d)


\* ------------------------------------------------------------ claims: run
\* The positions of calls holding a call of the operation.
CallsOf(op) == {i \in 1..Len(calls) : calls[i].op = op}
\* The placement of a side succeeded.
Placed(side) ==
    \E i \in CallsOf("placing_order") : calls[i].side = side /\ calls[i].ok

\* C13: a run with live_run false makes no cancel_order and no placing_order
\* call; such calls are made only when live_run is true.
C13_DryRunNoBrokerCalls == ~live_run => calls = <<>>

\* C13 witness: a dry run on a weekday has returned while the broker holds a
\* pending MARKET_IF_TOUCHED order.
C13_Witness ==
    /\ ~live_run /\ rpc = "done" /\ ~Weekend(weekday)
    /\ \E i \in 1..Len(broker) : broker[i].type = MARKET_IF_TOUCHED

\* C14 as claimed: in a live run the failure of any external call is caught
\* and logged and run returns normally.
C14_FailuresCaught ==
    (live_run /\ failed # "none") => (rpc = "done" /\ logged)

\* C15 as claimed: when one leg's placement fails the other leg ends up
\* placed: after a failed sell the buy stays placed and is not cancelled, and
\* after a failed buy the sell is still placed.
C15_OtherLegPlaced ==
    rpc = "done" =>
        /\ failed = "placing_order sell" =>
              /\ Placed("buy")
              /\ \E i \in 1..Len(broker) : broker[i].id = MaxPending + 1
              /\ \A i \in CallsOf("placing_order") : \A j \in CallsOf("cancel_order") : j < i
        /\ failed = "placing_order buy" => Placed("sell")

\* C16: get_risk_pct returns the stake of the 1, 3, 2, 4 sequence for k, the
\* number of non-losing transactions (pl >= 0) in a row at the end of the last
\* four: 0.01 for k = 0 and k = 4 (and an empty list), 0.03 for 1, 0.02 for 2,
\* 0.04 for 3; nothing older than the last four counts.
C16_Streak(t) ==
    LET l4 == SubSeq(t, IF Len(t) > 4 THEN Len(t) - 3 ELSE 1, Len(t))
        Wins(j) == \A i \in (Len(l4) - j + 1)..Len(l4) : l4[i].pl >= 0
    IN  CHOOSE j \in 0..Len(l4) : Wins(j) /\ \A m \in (j + 1)..Len(l4) : ~Wins(m)
C16_Stake(k) == IF k = 1 THEN 3 ELSE IF k = 2 THEN 2 ELSE IF k = 3 THEN 4 ELSE 1
C16_StakeSequence ==
    kpc = "returned" => risk_pct = C16_Stake(C16_Streak(trans))

\* C16 witness: a list of more than four transactions, the oldest a loss and
\* outside the last four, the last four a loss followed by three wins, has
\* returned 0.04.
C16_Witness ==
    /\ kpc = "returned" /\ Len(trans) > 4
    /\ trans[1].pl < 0 /\ trans[Len(trans) - 3].pl < 0
    /\ C16_Streak(trans) = 3
    /\ risk_pct = 4

\* C17: in a live run every cancel_order call precedes the first placing_order
\* call, only MARKET_IF_TOUCHED orders are cancelled (a TAKE_PROFIT or STOP_LOSS
\* order stays with the broker), and nothing is placed once fetching the
\* pending orders, a cancellation or the transaction fetch has failed.
C17_CancelThenPlace ==
    live_run =>
        /\ \A i \in CallsOf("placing_order") : \A j \in CallsOf("cancel_order") : j < i
        /\ \A j \in CallsOf("cancel_order") :
              \E k \in 1..Len(pending_orders) :
                  /\ pending_orders[k].id = calls[j].id
                  /\ pending_orders[k].type = MARKET_IF_TOUCHED
        /\ \A k \in 1..Len(pending_orders) :
              pending_orders[k].type # MARKET_IF_TOUCHED
                  => \E i \in 1..Len(broker) : broker[i] = pending_orders[k]
        /\ failed \in {"get_pending_orders", "cancel_order", "get_trans"}
              => CallsOf("placing_order") = {}

\* C17 witness: a live run has cancelled a MARKET_IF_TOUCHED order, kept another
\* pending order and placed both new orders.
C17_Witness ==
    /\ live_run /\ rpc = "done" /\ failed = "none"
    /\ CallsOf("cancel_order") # {}
    /\ \E k \in 1..Len(pending_orders) : pending_orders[k].type = TAKE_PROFIT
    /\ Placed("buy") /\ Placed("sell")

\* create_orders alone: the crossover script does not run.
Init == BInit /\ MIdle /\ PIdle /\ RIdle /\ KIdle
Next == BNext
Spec == Init /\ [][Next]_vars

\* The crossover script alone.
InitMacd == MInit /\ BIdle /\ PIdle /\ RIdle /\ KIdle
NextMacd == MNext
SpecMacd == InitMacd /\ [][NextMacd]_vars

\* plot_performance alone.
InitPlot == PInit /\ BIdle /\ MIdle /\ RIdle /\ KIdle
NextPlot == PNext
SpecPlot == InitPlot /\ [][NextPlot]_vars

\* get_risk_pct alone.
InitRisk == KInit /\ BIdle /\ MIdle /\ PIdle /\ RIdle
NextRisk == KNext
SpecRisk == InitRisk /\ [][NextRisk]_vars

\* run alone.
InitRun == RInit /\ BIdle /\ MIdle /\ PIdle /\ KIdle
NextRun == RNext
SpecRun == InitRun /\ [][NextRun]_vars

====
